---- MODULE Spec2Model ----
(***************************************************************************)
(* A model of the smart_colleague repository:                              *)
(*   - the DOM snapshot tool (src/src/dom_parser.js): parseDOM /           *)
(*     elementToTree, countInteractiveElements, analyzeDOM and the main    *)
(*     script, specification Spec;                                         *)
(*   - the assistant widget (src/unnamed/part_000, class AIAssistantWidget)*)
(*     specification WidgetSpec.                                           *)
(* Strings whose characters matter (text content, chat text) are sequences *)
(* of one-character strings.                                               *)
(***************************************************************************)
EXTENDS Integers, Sequences, FiniteSets, TLC

(***************************************************************************)
(* Bounds of the model.                                                    *)
(***************************************************************************)
\* longest input list of the snapshot tool
MaxFiles == 2
\* deepest wrapper nesting of the generated documents
MaxNest == 10
\* how far the longest generated text exceeds the text cut
MaxOverflow == 3

(***************************************************************************)
(* Program constants of dom_parser.js.                                     *)
(***************************************************************************)
DepthLimit == 10
TextLimit == 200

\* a tag list that leaves out the form
interactiveTagsNoForm == {"button", "a", "input", "select", "textarea"}

\* line 108
interactiveTags == {"button", "a", "input", "select", "textarea", "form"}

(***************************************************************************)
(* Strings as sequences of characters.                                     *)
(***************************************************************************)
\* the characters String.prototype.trim strips and the regexp class \s matches
WhiteSpace == {" ", "\t", "\n"}

Min(a, b) == IF a < b THEN a ELSE b

\* n copies of the sequence s, one after another
Repeat(s, n) ==
    IF n <= 0 THEN <<>>
    ELSE [i \in 1..(n * Len(s)) |-> s[((i - 1) % Len(s)) + 1]]

\* String.prototype.trimStart / trimEnd: drop the leading / trailing white space
TrimStart(s) ==
    IF \A i \in 1..Len(s) : s[i] \in WhiteSpace THEN <<>>
    ELSE LET first == CHOOSE i \in 1..Len(s) :
                         s[i] \notin WhiteSpace /\ \A j \in 1..(i - 1) : s[j] \in WhiteSpace
         IN SubSeq(s, first, Len(s))

TrimEnd(s) ==
    IF \A i \in 1..Len(s) : s[i] \in WhiteSpace THEN <<>>
    ELSE LET last == CHOOSE i \in 1..Len(s) :
                        s[i] \notin WhiteSpace /\ \A j \in (i + 1)..Len(s) : s[j] \in WhiteSpace
         IN SubSeq(s, 1, last)

\* a trim that forgets to strip
TrimNoOp(s) == s

\* String.prototype.trim
Trim(s) == TrimEnd(TrimStart(s))

\* String.prototype.replace(/\s+/g, ' '): every maximal run of white space
\* becomes one space (the first character of a run is replaced, the rest go)
CollapseWhiteSpace(s) ==
    LET marked == [i \in 1..Len(s) |->
                     [c |-> IF s[i] \in WhiteSpace THEN " " ELSE s[i],
                      keep |-> \/ s[i] \notin WhiteSpace
                               \/ i = 1
                               \/ s[i - 1] \notin WhiteSpace]]
        IsKept(m) == m.keep
        kept == SelectSeq(marked, IsKept)
    IN [i \in 1..Len(kept) |-> kept[i].c]

\* String.prototype.substring(0, n)
Substring0(s, n) == SubSeq(s, 1, Min(Len(s), n))

(***************************************************************************)
(* The documents the snapshot tool reads.  A DOM element has an upper-case *)
(* tagName (HTML elements) or a lower-case one (SVG elements), attributes, *)
(* its own leading text node and its child elements in document order.     *)
(***************************************************************************)
Element(tag, attrs, text, kids) ==
    [tagName |-> tag, attributes |-> attrs, text |-> text, children |-> kids]

NoAttrs == [n \in {} |-> ""]

\* n nested DIV wrappers around the element sequence kids
RECURSIVE Wrap(_, _)
Wrap(n, kids) ==
    IF n = 0 THEN kids
    ELSE << Element("DIV", [class |-> "w"], <<>>, Wrap(n - 1, kids)) >>

\* what the HTML parser builds: html > (head, body > content)
Document(content) ==
    Element("HTML", NoAttrs, <<>>,
        << Element("HEAD", NoAttrs, <<>>, <<>>),
           Element("BODY", NoAttrs, <<"\n">>, content) >>)

\* <html><body><button>x</button></body></html>
ButtonContent == << Element("BUTTON", NoAttrs, <<"x">>, <<>>) >>

\* a form with nested controls, a link inside a paragraph, an SVG link
FormContent ==
    << Element("FORM", [action |-> "/go"], <<" ">>,
          << Element("INPUT", [type |-> "text", name |-> "q"], <<>>, <<>>),
             Element("SELECT", NoAttrs, <<>>,
                << Element("OPTION", NoAttrs, <<"o">>, <<>>) >>),
             Element("TEXTAREA", NoAttrs, <<"t", " ", " ", "t">>, <<>>) >>),
       Element("P", NoAttrs, <<"\t", "y", " ">>,
          << Element("A", [href |-> "#"], <<"l">>,
                << Element("SPAN", NoAttrs, <<"s">>, <<>>) >>) >>),
       Element("svg", NoAttrs, <<>>,
          << Element("a", NoAttrs, <<>>, <<>>) >>) >>

\* a text of white-space separated words, 3k - 1 characters once normalised
WordsText(k) == <<" ", "\n">> \o Repeat(<<"x", "y", " ", "\t">>, k)

\* paragraphs whose normalised text is shorter than, as long as, and longer
\* than the cut; one white-space-only and one empty element
TextContent ==
    [o \in 1..(MaxOverflow + 1) |->
        Element("P", NoAttrs, WordsText((TextLimit \div 3) + o - 1), <<>>)]
    \o << Element("P", NoAttrs, <<" ", "\n", " ">>, <<>>),
          Element("BR", NoAttrs, <<>>, <<>>),
          Element("BUTTON", NoAttrs, Repeat(<<"z", " ">>, (TextLimit \div 2) + MaxOverflow), <<>>) >>

NestLevels == {0, 1} \cup ((DepthLimit - 3)..MaxNest)

\* The file paths of the model: the path tells what the file holds.
FilePaths ==
    { [name |-> "missing.html", nest |-> 0], [name |-> "text.html", nest |-> 0] }
    \cup [name : {"a.html", "form.html"}, nest : NestLevels]

\* fs.readFileSync + new JSDOM(html): the document element, or a thrown error
ReadDocument(htmlPath) ==
    CASE htmlPath.name = "missing.html" ->
            [ok |-> FALSE, error |-> "ENOENT: no such file or directory"]
      [] htmlPath.name = "a.html" ->
            [ok |-> TRUE, documentElement |-> Document(Wrap(htmlPath.nest, ButtonContent))]
      [] htmlPath.name = "form.html" ->
            [ok |-> TRUE, documentElement |-> Document(Wrap(htmlPath.nest, FormContent))]
      [] htmlPath.name = "text.html" ->
            [ok |-> TRUE, documentElement |-> Document(Wrap(htmlPath.nest, TextContent))]

\* Element.textContent of the DOM: the text of all descendant text nodes
RECURSIVE TextContentOf(_)
Flatten(seqs) ==
    LET RECURSIVE Cat(_)
        Cat(i) == IF i > Len(seqs) THEN <<>> ELSE seqs[i] \o Cat(i + 1)
    IN Cat(1)
TextContentOf(element) ==
    element.text \o
    Flatten([i \in 1..Len(element.children) |-> TextContentOf(element.children[i])])

\* String.prototype.toLowerCase on the tag names of the model
toLowerCase(tag) ==
    CASE tag = "HTML" -> "html"     [] tag = "HEAD" -> "head"
      [] tag = "BODY" -> "body"     [] tag = "DIV" -> "div"
      [] tag = "BUTTON" -> "button" [] tag = "FORM" -> "form"
      [] tag = "INPUT" -> "input"   [] tag = "SELECT" -> "select"
      [] tag = "OPTION" -> "option" [] tag = "TEXTAREA" -> "textarea"
      [] tag = "P" -> "p"           [] tag = "A" -> "a"
      [] tag = "SPAN" -> "span"     [] tag = "BR" -> "br"
      [] OTHER -> tag

(***************************************************************************)
(* parseDOM and elementToTree.                                             *)
(***************************************************************************)
\* line 27: trim, collapse white space, cut
NormalizeText(text) ==
    Substring0(CollapseWhiteSpace(Trim(text)), TextLimit)

\* a sentinel taken to stand for itself and one element beneath it
ElementCountOr1(node) ==
    IF "elementCount" \in DOMAIN node THEN node.elementCount ELSE 1

\* childTree.elementCount || 0
ElementCountOr0(node) ==
    IF "elementCount" \in DOMAIN node THEN node.elementCount ELSE 0

\* the for loop of lines 47-51 over the converted children
ChildrenCount(kids) ==
    LET RECURSIVE Sum(_)
        Sum(i) == IF i > Len(kids) THEN 0
                  ELSE 1 + ElementCountOr0(kids[i]) + Sum(i + 1)
    IN Sum(1)

\* a cut one level too late
DepthExceededLate(depth) == depth > DepthLimit + 1

\* line 17

DepthExceeded(depth) == depth > DepthLimit

RECURSIVE elementToTree(_, _)
elementToTree(element, depth) ==
    IF DepthExceeded(depth)
    THEN [tagName |-> toLowerCase(element.tagName), depthLimit |-> TRUE]
    ELSE LET kids == [i \in 1..Len(element.children) |->
                          elementToTree(element.children[i], depth + 1)]
             dom == TextContentOf(element)
         IN [tagName |-> toLowerCase(element.tagName),
             attributes |-> element.attributes,
             children |-> kids,
             textContent |-> IF dom # <<>> THEN NormalizeText(dom) ELSE <<>>,
             elementCount |-> ChildrenCount(kids)]

parseDOM(htmlPath) ==
    LET read == ReadDocument(htmlPath)
    IN IF read.ok THEN elementToTree(read.documentElement, 0)
       ELSE [error |-> read.error]

\* a count that takes a node without children for a leaf
RECURSIVE countInteractiveElementsLenient(_)
countInteractiveElementsLenient(node) ==
    LET own == IF "tagName" \in DOMAIN node /\ node.tagName \in interactiveTags
               THEN 1 ELSE 0
        kids == IF "children" \in DOMAIN node THEN node.children ELSE <<>>
        RECURSIVE Sum(_)
        Sum(i) == IF i > Len(kids) THEN 0
                  ELSE countInteractiveElementsLenient(kids[i]).count + Sum(i + 1)
    IN [ok |-> TRUE, count |-> own + Sum(1)]

(***************************************************************************)
(* countInteractiveElements: a count, or the TypeError thrown when a node  *)
(* has no children to iterate.                                             *)
(***************************************************************************)
RECURSIVE countInteractiveElements(_)
countInteractiveElements(node) ==
    LET own == IF "tagName" \in DOMAIN node /\ node.tagName \in interactiveTags
               THEN 1 ELSE 0
    IN IF "children" \notin DOMAIN node
       THEN [ok |-> FALSE, error |-> "node.children is not iterable"]
       ELSE LET sub == [i \in 1..Len(node.children) |->
                            countInteractiveElements(node.children[i])]
                RECURSIVE Sum(_)
                Sum(i) == IF i > Len(sub) THEN 0 ELSE sub[i].count + Sum(i + 1)
            IN IF \E i \in 1..Len(sub) : ~sub[i].ok
               THEN LET first == CHOOSE i \in 1..Len(sub) :
                                    ~sub[i].ok /\ \A j \in 1..(i - 1) : sub[j].ok
                    IN sub[first]
               ELSE [ok |-> TRUE, count |-> own + Sum(1)]

(***************************************************************************)
(* State of the snapshot tool's run (the main script of dom_parser.js).    *)
(***************************************************************************)
VARIABLES
    pc,          \* position of the main script
    tempFile,    \* what the file named by process.argv[2] holds
    htmlFiles,   \* the parsed input list
    idx,         \* forEach: index of the next list entry
    domTree,     \* analyzeDOM: what parseDOM returned for the last entry
    results,     \* analyzeDOM: results
    summary,     \* analyzeDOM: summary
    reportFile,  \* dom_analysis.json: <<>> or <<report>>
    stdout,      \* lines printed by console.log
    stderr,      \* lines printed by console.error
    exitCode     \* -1 while running, then the exit status

domVars == <<pc, tempFile, htmlFiles, idx, domTree, results, summary,
             reportFile, stdout, stderr, exitCode>>

\* all lists of at most n file paths
RECURSIVE ListsUpTo(_)
ListsUpTo(n) ==
    IF n = 0 THEN {<<>>}
    ELSE LET shorter == ListsUpTo(n - 1)
         IN shorter \cup { Append(l, f) : l \in {m \in shorter : Len(m) = n - 1},
                                          f \in FilePaths }

\* the input-list file: unreadable, not JSON, or a JSON value
TempFiles ==
    { [kind |-> k, items |-> <<>>] :
        k \in {"unreadable", "invalid", "null", "number", "string", "object"} }
    \cup { [kind |-> "array", items |-> l] : l \in ListsUpTo(MaxFiles) }

NoTree == [none |-> TRUE]
NoSummary == [totalPages |-> 0, totalElements |-> 0, interactiveElements |-> 0]

DomInit ==
    /\ pc = "start"
    /\ tempFile \in TempFiles
    /\ htmlFiles = <<>>
    /\ idx = 0
    /\ domTree = NoTree
    /\ results = <<>>
    /\ summary = NoSummary
    /\ reportFile = <<>>
    /\ stdout = <<>>
    /\ stderr = <<>>
    /\ exitCode = -1

\* a catch that reports the error but ends with status 0
FatalExitsZero(message) ==
    /\ stderr' = Append(stderr, [status |-> "error", error |-> message])
    /\ exitCode' = 0
    /\ pc' = "exited"

\* lines 138-143: the catch of the main script
Fatal(message) ==
    /\ stderr' = Append(stderr, [status |-> "error", error |-> message])
    /\ exitCode' = 1
    /\ pc' = "exited"

\* lines 124-125 and 64-72: read and parse the list, enter analyzeDOM
ReadInputList ==
    /\ pc = "start"
    /\ CASE tempFile.kind = "unreadable" ->
               /\ Fatal("ENOENT: no such file or directory")
               /\ UNCHANGED <<htmlFiles, idx, summary>>
         [] tempFile.kind = "invalid" ->
               /\ Fatal("Unexpected token in JSON")
               /\ UNCHANGED <<htmlFiles, idx, summary>>
         [] tempFile.kind = "null" ->
               /\ Fatal("Cannot read properties of null (reading 'length')")
               /\ UNCHANGED <<htmlFiles, idx, summary>>
         [] tempFile.kind \in {"number", "string", "object"} ->
               /\ Fatal("htmlFiles.forEach is not a function")
               /\ UNCHANGED <<htmlFiles, idx, summary>>
         [] tempFile.kind = "array" ->
               /\ htmlFiles' = tempFile.items
               /\ summary' = [totalPages |-> Len(tempFile.items),
                              totalElements |-> 0,
                              interactiveElements |-> 0]
               /\ idx' = 1
               /\ pc' = "forEach"
               /\ UNCHANGED <<stderr, exitCode>>
    /\ UNCHANGED <<tempFile, domTree, results, reportFile, stdout>>

\* a summary update that forgets the interactive elements
AddStatsTotalOnly(sum, stats) ==
    [sum EXCEPT !.totalElements = @ + stats.totalElements]

\* lines 88-89: the file's statistics are added to the summary
AddStats(sum, stats) ==
    [sum EXCEPT !.totalElements = @ + stats.totalElements,
                !.interactiveElements = @ + stats.interactiveElements]

\* a handler that lets the error of one file escape to the main script

RecordFileErrorAborts(filePath, message) ==
    /\ Fatal(message)
    /\ UNCHANGED <<results, idx>>

\* lines 91-96: the error of one file becomes its record
RecordFileError(filePath, message) ==
    /\ results' = Append(results, [file |-> filePath, error |-> message])
    /\ idx' = idx + 1
    /\ UNCHANGED <<pc, stderr, exitCode>>

\* lines 73-97: one iteration of htmlFiles.forEach
ProcessFile ==
    /\ pc = "forEach"
    /\ idx <= Len(htmlFiles)
    /\ LET filePath == htmlFiles[idx]
           tree == parseDOM(filePath)
           interactive == countInteractiveElements(tree)
       IN /\ domTree' = tree
          /\ IF interactive.ok
             THEN LET analysis ==
                        [file |-> filePath,
                         domTree |-> tree,
                         stats |-> [totalElements |-> ElementCountOr0(tree),
                                    interactiveElements |-> interactive.count]]
                  IN /\ results' = Append(results, analysis)
                     /\ summary' = AddStats(summary, analysis.stats)
                     /\ idx' = idx + 1
                     /\ UNCHANGED <<pc, stderr, exitCode>>
             ELSE /\ RecordFileError(filePath, interactive.error)
                  /\ UNCHANGED summary
    /\ UNCHANGED <<tempFile, htmlFiles, reportFile, stdout>>

\* lines 99-103 and 128: analyzeDOM returns, the report is written (or not)
WriteReport ==
    /\ pc = "forEach"
    /\ idx > Len(htmlFiles)
    /\ \E written \in BOOLEAN :
         IF written
         THEN /\ reportFile' = << [summary |-> summary, results |-> results] >>
              /\ pc' = "written"
              /\ UNCHANGED <<stderr, exitCode>>
         ELSE /\ Fatal("EACCES: permission denied, open 'dom_analysis.json'")
              /\ UNCHANGED reportFile
    /\ UNCHANGED <<tempFile, htmlFiles, idx, domTree, results, summary, stdout>>

\* lines 131-136: the status line, and the script ends
PrintStatus ==
    /\ pc = "written"
    /\ stdout' = Append(stdout, [status |-> "success",
                                 filesAnalyzed |-> Len(htmlFiles),
                                 outputFile |-> "dom_analysis.json"])
    /\ exitCode' = 0
    /\ pc' = "exited"
    /\ UNCHANGED <<tempFile, htmlFiles, idx, domTree, results, summary,
                   reportFile, stderr>>

(***************************************************************************)
(* The assistant widget (class AIAssistantWidget).                         *)
(*                                                                         *)
(* state  is this.state; ui holds what the handlers read and write in the  *)
(* DOM; net holds the requests in flight, each with the local variables of *)
(* the async function waiting for it; initPc is the position of init().    *)
(* A step is one turn of the event loop: a handler run to its first await, *)
(* or the continuation of an async function when its request settles.      *)
(***************************************************************************)
\* most messages the chat may hold for an operation to start or a request
\* to settle
MaxMessages == 3
\* most requests of one kind in flight at a time
MaxInFlight == 1
\* how many of the welcome messages Math.random() picks among
MaxWelcome == 1

\* the value of a property that was never set
JsUndefined == <<"#undefined">>
IsDefined(v) == v # JsUndefined

\* what the user may type into the chat field or pass to sendMessage
ChatTexts == { <<" ">>, <<" ", "h", "\n">> }
\* what the user may type into the search field
SearchQueries == { <<" ">>, <<"a">> }
\* the instructionId exportInstruction may get: none, or an identifier
ExportIds == { "", "i1" }
\* what prompt() may return: nothing, or a text
VoiceTexts == { <<>>, <<"v">> }

Tabs == {"tasks", "chat", "help"}

\* instructionData of a chat message: null, or steps and an identifier
Null == [isNull |-> TRUE, steps |-> <<>>, instruction_id |-> ""]
InstructionData(steps, id) == [isNull |-> FALSE, steps |-> steps, instruction_id |-> id]

\* lines 940-945
welcomeMessages == << <<"welcome 1">>, <<"welcome 2">>, <<"welcome 3">>, <<"welcome 4">> >>
ChatApology == <<"chat apology">>
InstructionApology == <<"instruction apology">>
VoiceApology == <<"voice apology">>
InstructionIntro == <<"instruction intro">>
TaskInstructionIntro == <<"task instruction intro">>

\* the JSON bodies POST /api/chat may answer with: a text, an instruction,
\* a text that carries instruction data, an instruction without its data,
\* and bodies with fields missing
ChatReplies ==
    { [type |-> "text", message |-> <<"reply">>, instruction_data |-> Null],
      [type |-> "text", message |-> <<"reply">>,
       instruction_data |-> InstructionData(<<"step">>, "i1")],
      [type |-> "instruction", message |-> <<"reply">>,
       instruction_data |-> InstructionData(<<"step">>, "i1")],
      [type |-> "instruction", message |-> <<"reply">>, instruction_data |-> Null],
      [type |-> "instruction", message |-> <<"reply">>,
       instruction_data |-> InstructionData(JsUndefined, "i1")],
      [type |-> "text", message |-> JsUndefined, instruction_data |-> Null] }

\* the JSON bodies POST /api/process-voice may answer with: an instruction,
\* a plain text, and an instruction without its steps
VoiceReplies ==
    { [source |-> "existing", text |-> <<"reply">>, steps |-> <<"step">>],
      [source |-> "none", text |-> <<"reply">>, steps |-> JsUndefined],
      [source |-> "generated", text |-> <<"reply">>, steps |-> JsUndefined] }

\* the JSON bodies POST /api/get-help and GET /api/popular-instructions may
\* answer with: a list, an empty list, or no list at all
HelpReplies ==
    { [available_tasks |-> <<"task">>], [available_tasks |-> <<>>],
      [available_tasks |-> JsUndefined] }
PopularReplies ==
    { [popular_instructions |-> <<"popular">>], [popular_instructions |-> <<>>],
      [popular_instructions |-> JsUndefined] }

\* a || []
OrEmpty(a) == IF IsDefined(a) THEN a ELSE <<>>

\* the JSON bodies POST /api/get-instruction may answer with
InstructionReplies ==
    { [steps |-> <<"step">>], [steps |-> JsUndefined] }

VARIABLES
    state,     \* this.state
    ui,        \* the widget's DOM as the handlers see it
    net,       \* requests in flight
    initPc,    \* init(): "help", "popular" or "ready"
    lastSend,  \* how the last call of sendChatMessage ended
    searchValue \* the value of the search field

widgetVars == <<state, ui, net, initPc, lastSend, searchValue>>

\* the page the script runs in: document.readyState, whether the script has
\* run and registered its DOMContentLoaded listener, window.aiAssistant (0
\* while unset, else the number of the widget), the widgets constructed by
\* initAIAssistant, whether the widget's nodes are in the document, and the
\* course of the last initAIAssistant call
VARIABLE page

\* lines 15-25; popularInstructions is first set by loadPopularInstructions
ConstructedState ==
    [isVisible |-> FALSE,
     availableTasks |-> <<>>,
     popularInstructions |-> JsUndefined,
     isListening |-> FALSE,
     chatMessages |-> <<>>,
     currentChatMessage |-> <<>>,
     activeTab |-> "tasks",
     isWaitingForResponse |-> FALSE,
     isMinimized |-> FALSE,
     hasUnreadMessages |-> FALSE]

\* createWidget and getPanelTemplate, before any listener is attached
ConstructedUi ==
    [listeners |-> FALSE,
     panelClasses |-> {},
     badgeDisplay |-> "none",
     activeTabBtns |-> {"tasks"},
     activeTabPanes |-> {"tasks"},
     sendBtnDisabled |-> FALSE,
     typingIndicators |-> 0,
     taskCards |-> [kind |-> "none", query |-> <<>>],
     popularCards |-> FALSE]

NoRequests ==
    [chat |-> 0, voice |-> <<>>, instruction |-> 0, search |-> <<>>, export |-> 0]

\* the constructor and init() up to its first await: POST /api/get-help is out
WidgetInit ==
    /\ state = ConstructedState
    /\ ui = ConstructedUi
    /\ net = NoRequests
    /\ initPc = "help"
    /\ lastSend = "none"
    /\ searchValue = <<>>

\* a handler's view of the widget: state, ui, and whether a call threw
World(st, u) == [state |-> st, ui |-> u, threw |-> FALSE]

\* lines 1235-1241
updateNotificationBadge(w) ==
    [w EXCEPT !.ui.badgeDisplay =
        IF w.state.hasUnreadMessages /\ ~w.state.isVisible THEN "flex" ELSE "none"]

\* renderChatMessages throws when escapeHtml gets a content that is no
\* string, or an assistant message's instructionData has no steps to map
renderThrows(messages) ==
    \E i \in 1..Len(messages) :
        \/ ~IsDefined(messages[i].content)
        \/ /\ messages[i].role # "user"
           /\ ~messages[i].instructionData.isNull
           /\ ~IsDefined(messages[i].instructionData.steps)

\* lines 1085-1160: the container's innerHTML is replaced, which also drops
\* a typing indicator appended to it; nothing is replaced when the map throws
renderChatMessages(w) ==
    IF renderThrows(w.state.chatMessages)
    THEN [w EXCEPT !.threw = TRUE]
    ELSE [w EXCEPT !.ui.typingIndicators = 0]

\* an addChatMessage that puts the message first (unshift for push)
addChatMessageUnshift(w, role, content, instructionData) ==
    LET message == [role |-> role, content |-> content,
                    instructionData |-> instructionData]
        pushed == [w EXCEPT !.state.chatMessages = <<message>> \o @]
        notified == IF ~pushed.state.isVisible /\ role = "assistant"
                    THEN updateNotificationBadge(
                            [pushed EXCEPT !.state.hasUnreadMessages = TRUE])
                    ELSE pushed
    IN renderChatMessages(notified)

\* lines 1062-1083
addChatMessage(w, role, content, instructionData) ==
    LET message == [role |-> role, content |-> content,
                    instructionData |-> instructionData]
        pushed == [w EXCEPT !.state.chatMessages = Append(@, message)]
        notified == IF ~pushed.state.isVisible /\ role = "assistant"
                    THEN updateNotificationBadge(
                            [pushed EXCEPT !.state.hasUnreadMessages = TRUE])
                    ELSE pushed
    IN renderChatMessages(notified)

\* lines 1209-1220
showTypingIndicator(w) == [w EXCEPT !.ui.typingIndicators = @ + 1]

\* lines 1222-1227: the first indicator found is removed
hideTypingIndicator(w) ==
    [w EXCEPT !.ui.typingIndicators = IF @ > 0 THEN @ - 1 ELSE 0]

\* a switchTab that only adds the class (classList.add for toggle)
switchTabAddsOnly(w, tabName) ==
    [w EXCEPT !.ui.activeTabBtns = @ \cup {tabName},
              !.ui.activeTabPanes = @ \cup {tabName},
              !.state.activeTab = tabName]

\* lines 918-937
switchTab(w, tabName) ==
    [w EXCEPT !.ui.activeTabBtns = {t \in Tabs : t = tabName},
              !.ui.activeTabPanes = {t \in Tabs : t = tabName},
              !.state.activeTab = tabName]

\* a showPanel that leaves the unread flag alone
showPanelKeepsUnread(w) ==
    updateNotificationBadge(
        [w EXCEPT !.ui.panelClasses = @ \cup {"visible"},
                  !.state.isVisible = TRUE])

\* lines 894-906
showPanel(w) ==
    updateNotificationBadge(
        [w EXCEPT !.ui.panelClasses = @ \cup {"visible"},
                  !.state.isVisible = TRUE,
                  !.state.hasUnreadMessages = FALSE])

\* a close that also restores a minimized panel
hidePanelRestores(w) ==
    [w EXCEPT !.ui.panelClasses = @ \ {"visible", "minimized"},
              !.state.isVisible = FALSE,
              !.state.isMinimized = FALSE]

\* lines 908-911
hidePanel(w) ==
    [w EXCEPT !.ui.panelClasses = @ \ {"visible"},
              !.state.isVisible = FALSE]

\* lines 881-892
togglePanel(w) ==
    LET restored == IF w.state.isMinimized
                    THEN [w EXCEPT !.state.isMinimized = FALSE,
                                   !.ui.panelClasses = @ \ {"minimized"}]
                    ELSE w
    IN IF restored.state.isVisible THEN hidePanel(restored) ELSE showPanel(restored)

\* lines 913-916
toggleMinimize(w) ==
    LET minimized == ~w.state.isMinimized
    IN [w EXCEPT !.state.isMinimized = minimized,
                 !.ui.panelClasses = IF minimized THEN @ \cup {"minimized"}
                                     ELSE @ \ {"minimized"}]

\* lines 973-995: the available-task container shows the tasks or is emptied
renderAvailableTasks(w) ==
    [w EXCEPT !.ui.taskCards =
        [kind |-> IF Len(w.state.availableTasks) = 0 THEN "empty" ELSE "tasks",
         query |-> <<>>]]

\* lines 997-1016: throws on .length while popularInstructions is undefined
renderPopularInstructions(w) ==
    IF ~IsDefined(w.state.popularInstructions)
    THEN [w EXCEPT !.threw = TRUE]
    ELSE [w EXCEPT !.ui.popularCards = Len(w.state.popularInstructions) # 0]

\* a query that searches nothing
SearchBlankUntrimmed(query) == query = <<>>

\* line 1019: !query.trim()
SearchBlank(query) == Trim(query) = <<>>

\* lines 1039-1060
renderSearchResults(w, query, found) ==
    [w EXCEPT !.ui.taskCards =
        [kind |-> IF found THEN "results" ELSE "notfound", query |-> query]]

\* a guard that lets a send through while a request is pending
SendRejectedOnlyWhenBlank(message, waiting) == message = <<>>

\* a guard that lets a blank message through
SendRejectedOnlyWhenPending(message, waiting) == waiting

\* line 1164: if (!message || this.state.isWaitingForResponse) return
SendRejected(message, waiting) == message = <<>> \/ waiting

\* a send that leaves the button enabled
disableSendBtnForgotten(w) == w

\* line 1178
disableSendBtn(w) == [w EXCEPT !.ui.sendBtnDisabled = TRUE]

\* line 1205
enableSendBtn(w) == [w EXCEPT !.ui.sendBtnDisabled = FALSE]

\* lines 1162-1178: sendChatMessage up to its fetch; request tells whether
\* POST /api/chat is issued
sendChatMessage(w) ==
    LET message == Trim(w.state.currentChatMessage)
    IN IF SendRejected(message, w.state.isWaitingForResponse)
       THEN [w |-> w, request |-> FALSE,
             result |-> IF message = <<>> THEN "blank" ELSE "pending"]
       ELSE LET added == addChatMessage(w, "user", message, Null)
            IN IF added.threw
               THEN [w |-> added, request |-> FALSE, result |-> "threw"]
               ELSE [w |-> disableSendBtn(
                             [showTypingIndicator(
                                 [added EXCEPT !.state.currentChatMessage = <<>>])
                                EXCEPT !.state.isWaitingForResponse = TRUE]),
                     request |-> TRUE, result |-> "accepted"]

\* lines 1190-1206: sendChatMessage from the settling of its request on
chatSettled(w, failed, data) ==
    LET hidden == hideTypingIndicator(w)
        tried == IF data.type = "instruction"
                 THEN addChatMessage(hidden, "assistant", data.message,
                                     data.instruction_data)
                 ELSE addChatMessage(hidden, "assistant", data.message, Null)
        caught == addChatMessage(
                      hideTypingIndicator([(IF failed THEN w ELSE tried)
                                              EXCEPT !.threw = FALSE]),
                      "assistant", ChatApology, Null)
        ended == IF failed \/ tried.threw THEN caught ELSE tried
    IN enableSendBtn([ended EXCEPT !.state.isWaitingForResponse = FALSE])

\* a catch block that sends the message again
chatRequestsAfterRetry(inFlight, failed) ==
    IF failed THEN inFlight ELSE inFlight - 1

\* lines 1180-1206: the /api/chat requests in flight once one of them has
\* settled; neither the try nor the catch block issues another
chatRequestsAfter(inFlight, failed) == inFlight - 1

\* lines 1321-1338: processVoiceQuery from the settling of its request on
voiceSettled(w, text, failed, data) ==
    LET switched == switchTab(w, "chat")
        asked == addChatMessage(switched, "user", text, Null)
        answered ==
            IF data.source \in {"existing", "generated", "fallback"}
            THEN addChatMessage(asked, "assistant", data.text,
                                InstructionData(data.steps, "i1"))
            ELSE addChatMessage(asked, "assistant", data.text, Null)
        tried == IF asked.threw THEN asked ELSE answered
    IN IF failed \/ tried.threw
       THEN addChatMessage([(IF failed THEN w ELSE tried) EXCEPT !.threw = FALSE],
                           "assistant", VoiceApology, Null)
       ELSE tried

\* lines 1256-1268: showInstruction from the settling of its request on
instructionSettled(w, failed, data) ==
    LET tried == addChatMessage(switchTab(w, "chat"), "assistant",
                                TaskInstructionIntro,
                                InstructionData(OrEmpty(data.steps), "i1"))
    IN IF failed \/ tried.threw
       THEN addChatMessage([(IF failed THEN w ELSE tried) EXCEPT !.threw = FALSE],
                           "assistant", InstructionApology, Null)
       ELSE tried

\* lines 1271-1277
loadInstruction(w, instruction) ==
    addChatMessage(switchTab(w, "chat"), "assistant", InstructionIntro,
                   InstructionData(OrEmpty(instruction.steps), "i1"))

(***************************************************************************)
(* The steps of the widget.                                                *)
(***************************************************************************)
Commit(w) ==
    /\ state' = w.state
    /\ ui' = w.ui

\* the chat has room for need more messages
Room(need) == Len(state.chatMessages) + need <= MaxMessages

\* s without its i-th element
RemoveAt(s, i) == SubSeq(s, 1, i - 1) \o SubSeq(s, i + 1, Len(s))

\* lines 951-964: POST /api/get-help settles, initializeWidget ends, and
\* loadPopularInstructions issues GET /api/popular-instructions
HelpSettlesWith(failed, tasks) ==
    /\ initPc = "help"
    /\ LET w == World(state, ui)
           loaded == renderAvailableTasks(
               [w EXCEPT !.state.availableTasks = OrEmpty(tasks.available_tasks)])
       IN Commit(IF failed THEN w ELSE loaded)
    /\ initPc' = "popular"
    /\ UNCHANGED <<net, lastSend, searchValue, domVars, page>>

HelpSettles == \E failed \in BOOLEAN : \E tasks \in HelpReplies :
                   HelpSettlesWith(failed, tasks)

\* an init that stops when the popular instructions cannot be loaded
initStopsOnFailure(w, failed, data, i) ==
    LET loaded == renderPopularInstructions(
                      [w EXCEPT !.state.popularInstructions =
                                    OrEmpty(data.popular_instructions)])
        attached == [loaded EXCEPT !.ui.listeners = TRUE]
    IN IF failed THEN w
       ELSE addChatMessage(attached, "assistant", welcomeMessages[i], Null)

\* lines 965-971 and 35-37: GET /api/popular-instructions settles, the
\* listeners are attached and the welcome message is added
init(w, failed, data, i) ==
    LET loaded == renderPopularInstructions(
                      [w EXCEPT !.state.popularInstructions =
                                    OrEmpty(data.popular_instructions)])
        attached == [(IF failed THEN w ELSE loaded) EXCEPT !.ui.listeners = TRUE]
    IN addChatMessage(attached, "assistant", welcomeMessages[i], Null)

PopularSettlesWith(failed, data, i) ==
    /\ initPc = "popular"
    /\ Room(1)
    /\ Commit(init(World(state, ui), failed, data, i))
    /\ initPc' = "ready"
    /\ UNCHANGED <<net, lastSend, searchValue, domVars, page>>

PopularSettles ==
    \E failed \in BOOLEAN : \E data \in PopularReplies :
    \E i \in 1..Min(MaxWelcome, Len(welcomeMessages)) :
        PopularSettlesWith(failed, data, i)

\* line 837: click on the assistant button
TogglePanel ==
    /\ ui.listeners
    /\ Commit(togglePanel(World(state, ui)))
    /\ UNCHANGED <<net, initPc, lastSend, searchValue, domVars, page>>

\* line 840: click on the minimize button
ToggleMinimize ==
    /\ ui.listeners
    /\ Commit(toggleMinimize(World(state, ui)))
    /\ UNCHANGED <<net, initPc, lastSend, searchValue, domVars, page>>

\* line 841: click on the close button
ClosePanel ==
    /\ ui.listeners
    /\ Commit(hidePanel(World(state, ui)))
    /\ UNCHANGED <<net, initPc, lastSend, searchValue, domVars, page>>

\* lines 1425-1427: the public show()
Show ==
    /\ Commit(showPanel(World(state, ui)))
    /\ UNCHANGED <<net, initPc, lastSend, searchValue, domVars, page>>

\* lines 1429-1431: the public hide()
Hide ==
    /\ Commit(hidePanel(World(state, ui)))
    /\ UNCHANGED <<net, initPc, lastSend, searchValue, domVars, page>>

\* lines 844-849: click on a tab button
TabClickOf(tab) ==
    /\ ui.listeners
    /\ Commit(switchTab(World(state, ui), tab))
    /\ UNCHANGED <<net, initPc, lastSend, searchValue, domVars, page>>

TabClick == \E tab \in Tabs : TabClickOf(tab)

\* lines 861-864: input event of the chat field
ChatInput ==
    /\ ui.listeners
    /\ \E value \in ChatTexts : state' = [state EXCEPT !.currentChatMessage = value]
    /\ UNCHANGED <<ui, net, initPc, lastSend, searchValue, domVars, page>>

\* a call of sendChatMessage
Send(w) ==
    LET sent == sendChatMessage(w)
    IN /\ sent.result \in {"accepted", "threw"} => Room(1)
       /\ Commit(sent.w)
       /\ net' = IF sent.request THEN [net EXCEPT !.chat = @ + 1] ELSE net
       /\ lastSend' = sent.result

\* line 873: a click event reaches the listener of the send button
SendClick ==
    /\ ui.listeners
    /\ Send(World(state, ui))
    /\ UNCHANGED <<initPc, searchValue, domVars, page>>

\* lines 866-871: Enter without Shift in the chat field
EnterKey ==
    /\ ui.listeners
    /\ Send(World(state, ui))
    /\ UNCHANGED <<initPc, searchValue, domVars, page>>

\* lines 1433-1436: the public sendMessage(message)
SendMessageOf(message) ==
    /\ Send(World([state EXCEPT !.currentChatMessage = message], ui))
    /\ UNCHANGED <<initPc, searchValue, domVars, page>>

SendMessage == \E message \in ChatTexts : SendMessageOf(message)

\* lines 1180-1206: POST /api/chat settles: the fetch or the body fails, or
\* a JSON body arrives
ChatSettlesWith(failed, data) ==
    /\ net.chat > 0
    /\ Room(1)
    /\ Commit(chatSettled(World(state, ui), failed, data))
    /\ net' = [net EXCEPT !.chat = chatRequestsAfter(@, failed)]
    /\ UNCHANGED <<initPc, lastSend, searchValue, domVars, page>>

ChatSettles == \E failed \in BOOLEAN : \E data \in ChatReplies :
                   ChatSettlesWith(failed, data)

\* lines 857-858 and 1279-1319: click on a voice button; prompt() returns a
\* text, and processVoiceQuery issues POST /api/process-voice, or nothing
VoiceClick ==
    /\ ui.listeners
    /\ \E text \in VoiceTexts :
          IF ~state.isListening /\ text # <<>>
          THEN /\ Len(net.voice) < MaxInFlight
               /\ Room(1)
               /\ net' = [net EXCEPT !.voice = Append(@, text)]
          ELSE /\ net' = net
    /\ UNCHANGED <<state, ui, initPc, lastSend, searchValue, domVars, page>>

\* lines 1321-1338: POST /api/process-voice settles
VoiceSettlesWith(i, failed, data) ==
    /\ Room(2)
    /\ i \in 1..Len(net.voice)
    /\ Commit(voiceSettled(World(state, ui), net.voice[i], failed, data))
    /\ net' = [net EXCEPT !.voice = RemoveAt(@, i)]
    /\ UNCHANGED <<initPc, lastSend, searchValue, domVars, page>>

VoiceSettles ==
    \E i \in 1..Len(net.voice) : \E failed \in BOOLEAN : \E data \in VoiceReplies :
        VoiceSettlesWith(i, failed, data)

\* lines 985 and 1243-1254: click on a task card, showInstruction issues
\* POST /api/get-instruction
TaskCardClick ==
    /\ ui.taskCards.kind = "tasks"
    /\ net.instruction < MaxInFlight
    /\ Room(1)
    /\ net' = [net EXCEPT !.instruction = @ + 1]
    /\ UNCHANGED <<state, ui, initPc, lastSend, searchValue, domVars, page>>

\* lines 1256-1268: POST /api/get-instruction settles
InstructionSettlesWith(failed, data) ==
    /\ net.instruction > 0
    /\ Room(1)
    /\ Commit(instructionSettled(World(state, ui), failed, data))
    /\ net' = [net EXCEPT !.instruction = @ - 1]
    /\ UNCHANGED <<initPc, lastSend, searchValue, domVars, page>>

InstructionSettles == \E failed \in BOOLEAN : \E data \in InstructionReplies :
                          InstructionSettlesWith(failed, data)

\* lines 1006, 1049 and 1271-1277: click on a popular-instruction card or
\* on a search result
InstructionCardClickOf(instruction) ==
    /\ ui.popularCards \/ ui.taskCards.kind = "results"
    /\ Room(1)
    /\ Commit(loadInstruction(World(state, ui), instruction))
    /\ UNCHANGED <<net, initPc, lastSend, searchValue, domVars, page>>

InstructionCardClick ==
    \E instruction \in InstructionReplies : InstructionCardClickOf(instruction)

\* lines 852-854 and 1018-1030: input event of the search field
SearchInputOf(query) ==
    /\ ui.listeners
    /\ searchValue' = query
    /\ IF SearchBlank(query)
       THEN /\ Commit(renderPopularInstructions(
                          renderAvailableTasks(World(state, ui))))
            /\ net' = net
       ELSE /\ Len(net.search) < MaxInFlight
            /\ net' = [net EXCEPT !.search = Append(@, query)]
            /\ UNCHANGED <<state, ui>>
    /\ UNCHANGED <<initPc, lastSend, domVars, page>>

SearchInput == \E query \in SearchQueries : SearchInputOf(query)

\* lines 1032-1036: POST /api/search-instructions settles
SearchSettlesWith(i, failed, found) ==
    /\ i \in 1..Len(net.search)
    /\ Commit(IF failed THEN World(state, ui)
              ELSE renderSearchResults(World(state, ui), net.search[i], found))
    /\ net' = [net EXCEPT !.search = RemoveAt(@, i)]
    /\ UNCHANGED <<initPc, lastSend, searchValue, domVars, page>>

SearchSettles ==
    \E i \in 1..Len(net.search) : \E failed \in BOOLEAN : \E found \in BOOLEAN :
        SearchSettlesWith(i, failed, found)

\* lines 1361-1365: exportInstruction(format, instructionId), called by the
\* export buttons of a rendered instruction or by a script; without an
\* identifier it returns, else it issues GET /api/export/format/id
ExportCallOf(instructionId) ==
    /\ IF instructionId = ""
       THEN net' = net
       ELSE /\ net.export < MaxInFlight
            /\ net' = [net EXCEPT !.export = @ + 1]
    /\ UNCHANGED <<state, ui, initPc, lastSend, searchValue, domVars, page>>

ExportCall == \E instructionId \in ExportIds : ExportCallOf(instructionId)

\* lines 1366-1382: GET /api/export settles: the fetch fails, or the
\* response is not ok, or its blob is downloaded; the widget keeps no trace
ExportSettlesWith(outcome) ==
    /\ net.export > 0
    /\ outcome \in {"failed", "notOk", "downloaded"}
    /\ net' = [net EXCEPT !.export = @ - 1]
    /\ UNCHANGED <<state, ui, initPc, lastSend, searchValue, domVars, page>>

ExportSettles == \E outcome \in {"failed", "notOk", "downloaded"} :
                     ExportSettlesWith(outcome)

(***************************************************************************)
(* The page: the script's last lines (1444-1467) and destroy().            *)
(***************************************************************************)
\* the configs initAIAssistant is called with: none, an object, null
Configs == {"undefined", "object", "null"}

NoCall == [config |-> "none", returned |-> 0, threw |-> FALSE,
           warned |-> FALSE, afterDestroy |-> FALSE]

\* a page on which the script has not run yet
FreshPage(readyState) ==
    [readyState |-> readyState, script |-> "fresh", aiAssistant |-> 0,
     constructed |-> 0, attached |-> FALSE, destroyed |-> FALSE,
     lastCall |-> NoCall]

\* a loaded page whose script has run: it called initAIAssistant()
LoadedPage ==
    [readyState |-> "complete", script |-> "run", aiAssistant |-> 1,
     constructed |-> 1, attached |-> TRUE, destroyed |-> FALSE,
     lastCall |-> [config |-> "undefined", returned |-> 1, threw |-> FALSE,
                   warned |-> FALSE, afterDestroy |-> FALSE]]

\* an initAIAssistant that constructs a widget at every call
initAIAssistantAlways(p, config) ==
    IF config = "null"
    THEN [p EXCEPT !.lastCall = [config |-> config, returned |-> 0, threw |-> TRUE,
                                 warned |-> FALSE, afterDestroy |-> p.destroyed]]
    ELSE [p EXCEPT !.aiAssistant = p.constructed + 1,
                   !.constructed = @ + 1,
                   !.attached = TRUE,
                   !.lastCall = [config |-> config, returned |-> p.constructed + 1,
                                 threw |-> FALSE, warned |-> FALSE,
                                 afterDestroy |-> p.destroyed]]

\* lines 1444-1452: the page after initAIAssistant(config); the constructor
\* (lines 2-13) throws a TypeError on a null config before anything is built
initAIAssistant(p, config) ==
    IF p.aiAssistant # 0
    THEN [p EXCEPT !.lastCall = [config |-> config, returned |-> p.aiAssistant,
                                 threw |-> FALSE, warned |-> TRUE,
                                 afterDestroy |-> p.destroyed]]
    ELSE IF config = "null"
    THEN [p EXCEPT !.lastCall = [config |-> config, returned |-> 0, threw |-> TRUE,
                                 warned |-> FALSE, afterDestroy |-> p.destroyed]]
    ELSE [p EXCEPT !.aiAssistant = p.constructed + 1,
                   !.constructed = @ + 1,
                   !.attached = TRUE,
                   !.lastCall = [config |-> config, returned |-> p.constructed + 1,
                                 threw |-> FALSE, warned |-> FALSE,
                                 afterDestroy |-> p.destroyed]]

\* a call of initAIAssistant: the page changes, and a new widget starts in the
\* state its constructor leaves (lines 15-25, 30-33)
CallInitAIAssistant(config) ==
    /\ page' = initAIAssistant(page, config)
    /\ IF page'.constructed # page.constructed
       THEN /\ state' = ConstructedState
            /\ ui' = ConstructedUi
            /\ net' = NoRequests
            /\ initPc' = "help"
            /\ lastSend' = "none"
            /\ searchValue' = <<>>
       ELSE UNCHANGED widgetVars
    /\ UNCHANGED domVars

\* lines 1454-1461: the script runs: it calls initAIAssistant(), or waits for
\* DOMContentLoaded while the document is loading
ScriptRuns ==
    /\ page.script = "fresh"
    /\ IF page.readyState = "loading"
       THEN /\ page' = [page EXCEPT !.script = "listening"]
            /\ UNCHANGED <<widgetVars, domVars>>
       ELSE \E p \in {[page EXCEPT !.script = "run"]} :
               /\ page' = initAIAssistant(p, "undefined")
               /\ state' = ConstructedState
               /\ ui' = ConstructedUi
               /\ net' = NoRequests
               /\ initPc' = "help"
               /\ lastSend' = "none"
               /\ searchValue' = <<>>
               /\ UNCHANGED domVars

\* lines 1455-1457: the document is parsed; the listener, if registered,
\* calls initAIAssistant()
DOMContentLoaded ==
    /\ page.readyState = "loading"
    /\ IF page.script = "listening"
       THEN \E p \in {[page EXCEPT !.readyState = "complete", !.script = "run"]} :
               /\ page' = initAIAssistant(p, "undefined")
               /\ IF page'.constructed # page.constructed
                  THEN /\ state' = ConstructedState
                       /\ ui' = ConstructedUi
                       /\ net' = NoRequests
                       /\ initPc' = "help"
                       /\ lastSend' = "none"
                       /\ searchValue' = <<>>
                  ELSE UNCHANGED widgetVars
               /\ UNCHANGED domVars
       ELSE /\ page' = [page EXCEPT !.readyState = "complete"]
            /\ UNCHANGED <<widgetVars, domVars>>

\* lines 1444-1452: the page's own code calls initAIAssistant(config)
InitAIAssistantOf(config) ==
    /\ page.script # "fresh"
    /\ CallInitAIAssistant(config)

InitAIAssistantCall == \E config \in Configs : InitAIAssistantOf(config)

\* lines 1438-1441: destroy() of the widget in window.aiAssistant
Destroy ==
    /\ page.aiAssistant # 0
    /\ page' = [page EXCEPT !.attached = FALSE, !.destroyed = TRUE]
    /\ UNCHANGED <<widgetVars, domVars>>

\* the widget exists, and its nodes can receive events
Constructed == page.aiAssistant # 0
Attached == Constructed /\ page.attached

WidgetNext ==
    \/ HelpSettles \/ PopularSettles
    \/ TogglePanel \/ ToggleMinimize \/ ClosePanel \/ Show \/ Hide \/ TabClick
    \/ ChatInput \/ SendClick \/ EnterKey \/ SendMessage \/ ChatSettles
    \/ VoiceClick \/ VoiceSettles
    \/ TaskCardClick \/ InstructionSettles \/ InstructionCardClick
    \/ SearchInput \/ SearchSettles

DomNext == ReadInputList \/ ProcessFile \/ WriteReport \/ PrintStatus

vars == <<domVars, widgetVars, page>>

\* the snapshot tool, run on any input list
Init == DomInit /\ WidgetInit /\ page = LoadedPage

Next ==
    \/ ReadInputList /\ UNCHANGED <<widgetVars, page>>
    \/ ProcessFile /\ UNCHANGED <<widgetVars, page>>
    \/ WriteReport /\ UNCHANGED <<widgetVars, page>>
    \/ PrintStatus /\ UNCHANGED <<widgetVars, page>>

Spec == Init /\ [][Next]_vars

\* the widget on a page, the snapshot tool not run
WidgetSpecInit ==
    /\ WidgetInit
    /\ page = LoadedPage
    /\ DomInit
    /\ tempFile = [kind |-> "array", items |-> <<>>]

WidgetSpec == WidgetSpecInit /\ [][WidgetNext]_vars

\* the widget with its panel left alone: initialisation, the chat, voice
\* queries, instruction fetches and searches
ChatNext ==
    \/ HelpSettles \/ PopularSettles
    \/ ChatInput \/ SendClick \/ EnterKey \/ SendMessage \/ ChatSettles
    \/ VoiceClick \/ VoiceSettles
    \/ TaskCardClick \/ InstructionSettles
    \/ SearchInput \/ SearchSettles

ChatSpec == WidgetSpecInit /\ [][ChatNext]_vars

\* every call of the backend the widget makes: those of ChatNext and the
\* exports
BackendNext ==
    \/ HelpSettles \/ PopularSettles
    \/ ChatInput \/ SendClick \/ EnterKey \/ SendMessage \/ ChatSettles
    \/ VoiceClick \/ VoiceSettles
    \/ TaskCardClick \/ InstructionSettles
    \/ SearchInput \/ SearchSettles
    \/ ExportCall \/ ExportSettles

BackendSpec == WidgetSpecInit /\ [][BackendNext]_vars

\* the panel, the tabs and every operation that adds a chat message
PanelNext ==
    \/ HelpSettles \/ PopularSettles
    \/ TogglePanel \/ ToggleMinimize \/ ClosePanel \/ Show \/ Hide \/ TabClick
    \/ SendMessage \/ ChatSettles
    \/ VoiceClick \/ VoiceSettles
    \/ TaskCardClick \/ InstructionSettles \/ InstructionCardClick

PanelSpec == WidgetSpecInit /\ [][PanelNext]_vars

\* the page from before the script runs: the script, DOMContentLoaded, calls
\* of initAIAssistant and destroy(), the widget's initialisation and panel
PageSpecInit ==
    /\ WidgetInit
    /\ page \in {FreshPage("loading"), FreshPage("complete")}
    /\ DomInit
    /\ tempFile = [kind |-> "array", items |-> <<>>]

PageNext ==
    \/ ScriptRuns \/ DOMContentLoaded \/ InitAIAssistantCall \/ Destroy
    \/ Constructed /\ (HelpSettles \/ PopularSettles \/ Show \/ Hide)
    \/ Attached /\ (TogglePanel \/ ToggleMinimize \/ ClosePanel)

PageSpec == PageSpecInit /\ [][PageNext]_vars

(***************************************************************************)
(* Properties of the snapshot tool, checked under Spec.                    *)
(***************************************************************************)
\* the document element the tree of the last forEach iteration was built from
LastElement == ReadDocument(htmlFiles[idx - 1]).documentElement

\* a tree was built for the last processed file
TreeBuilt == pc # "start" /\ idx > 1 /\ "elementCount" \in DOMAIN domTree

IsSentinel(node) == "depthLimit" \in DOMAIN node

\* the number of elements below an element of the document
RECURSIVE DescendantCount(_)
DescendantCount(element) ==
    LET RECURSIVE Below(_)
        Below(i) == IF i > Len(element.children) THEN 0
                    ELSE 1 + DescendantCount(element.children[i]) + Below(i + 1)
    IN Below(1)

\* the depth of the deepest element below an element at the given depth
RECURSIVE DeepestLevel(_, _)
DeepestLevel(element, depth) ==
    LET levels == {depth} \cup
                  { DeepestLevel(element.children[i], depth + 1) :
                      i \in 1..Len(element.children) }
    IN CHOOSE m \in levels : \A l \in levels : l <= m

\* the paths (child indexes from the root) of the nodes of a snapshot tree
RECURSIVE PathsOf(_)
PathsOf(node) ==
    {<<>>} \cup
    (IF "children" \in DOMAIN node
     THEN UNION { { <<i>> \o p : p \in PathsOf(node.children[i]) } :
                    i \in 1..Len(node.children) }
     ELSE {})

RECURSIVE NodeAt(_, _)
NodeAt(node, path) ==
    IF path = <<>> THEN node ELSE NodeAt(node.children[Head(path)], Tail(path))

\* C1: the elementCount of the root returned by parseDOM is the number of
\* elements below the document element, whatever the depth of the document.
C1_ElementCountIsDescendantCount ==
    TreeBuilt => domTree.elementCount = DescendantCount(LastElement)

\* C2: in the tree built from a document, the nodes at depths 0..10 are full
\* nodes with one child per child element, the elements at depth 11 are
\* sentinels (depthLimit TRUE, no children, no other field than the tag name),
\* and nothing lies below a sentinel.
RECURSIVE CappedAtDepthLimit(_, _, _)
CappedAtDepthLimit(element, node, depth) ==
    IF depth > 10
    THEN /\ DOMAIN node = {"tagName", "depthLimit"}
         /\ node.depthLimit = TRUE
    ELSE /\ ~IsSentinel(node)
         /\ Len(node.children) = Len(element.children)
         /\ \A i \in 1..Len(node.children) :
               CappedAtDepthLimit(element.children[i], node.children[i], depth + 1)

C2_SentinelsExactlyBeyondDepthLimit ==
    TreeBuilt =>
        /\ CappedAtDepthLimit(LastElement, domTree, 0)
        /\ \A p \in PathsOf(domTree) :
              /\ Len(p) <= 11
              /\ IsSentinel(NodeAt(domTree, p)) <=> Len(p) = 11

\* C2 witness: a document deeper than 11 levels was cut, sentinels are in the tree
C2_Witness ==
    /\ TreeBuilt
    /\ DeepestLevel(LastElement, 0) > 11
    /\ \E p \in PathsOf(domTree) : IsSentinel(NodeAt(domTree, p))

\* the words of a text joined by single spaces: from the first word on, a
\* character stays when it is part of a word, and the last white-space
\* character before a word stays as a space
WordsJoined(text) ==
    LET n == Len(text)
        IsWord(i) == text[i] \notin WhiteSpace
        marked == [i \in 1..n |->
                     [c |-> IF IsWord(i) THEN text[i] ELSE " ",
                      i |-> i,
                      keep |-> IsWord(i) \/ (i < n /\ IsWord(i + 1))]]
        IsKept(m) == m.keep
        kept == SelectSeq(marked, IsKept)
        chars == [i \in 1..Len(kept) |-> kept[i].c]
    IN IF chars # <<>> /\ ~IsWord(kept[1].i) THEN Tail(chars) ELSE chars

\* C3: the textContent of every node is at most 200 characters long and is
\* the first 200 characters of the element's text with the surrounding white
\* space removed and every white-space run turned into one space.
RECURSIVE TextContentNormalized(_, _)
TextContentNormalized(element, node) ==
    "textContent" \in DOMAIN node =>
        /\ Len(node.textContent) <= 200
        /\ LET joined == WordsJoined(TextContentOf(element))
           IN node.textContent = SubSeq(joined, 1, Min(200, Len(joined)))
        /\ \A i \in 1..Len(node.children) :
              TextContentNormalized(element.children[i], node.children[i])

C3_TextContentAtMost200Normalized ==
    TreeBuilt => TextContentNormalized(LastElement, domTree)

\* C3 witness: a node whose text was cut at 200 characters, and one that
\* was short enough to stay whole but lost white space
C3_Witness ==
    /\ TreeBuilt
    /\ Len(domTree.children) = 2
    /\ LET body == domTree.children[2]
           element == LastElement.children[2]
       IN /\ Len(body.textContent) = 200
          /\ Len(TextContentOf(element)) > 200
          /\ \E i \in 1..Len(body.children) :
                /\ Len(body.children[i].textContent) \in 1..199
                /\ Len(TextContentOf(element.children[i])) >
                      Len(body.children[i].textContent)

\* the number of nodes of a snapshot tree whose tag is interactive
InteractiveNodes(tree) ==
    Cardinality({ p \in PathsOf(tree) :
        NodeAt(tree, p).tagName \in
            {"button", "a", "input", "select", "textarea", "form"} })

\* C4: for every analysed file, stats.interactiveElements is the number of
\* nodes of the file's domTree whose tag is button, a, input, select,
\* textarea or form.
C4_InteractiveCountIsNumberOfInteractiveNodes ==
    \A i \in 1..Len(results) :
        "stats" \in DOMAIN results[i] =>
            results[i].stats.interactiveElements = InteractiveNodes(results[i].domTree)

\* C4 witness: an analysed file with a form and several controls
C4_Witness ==
    \E i \in 1..Len(results) :
        /\ "stats" \in DOMAIN results[i]
        /\ results[i].stats.interactiveElements >= 5
        /\ \E p \in PathsOf(results[i].domTree) :
              NodeAt(results[i].domTree, p).tagName = "form"

\* the sum of one statistic over the results that carry stats
RECURSIVE SumOfStats(_, _)
SumOfStats(rs, field) ==
    IF rs = <<>> THEN 0
    ELSE (IF "stats" \in DOMAIN Head(rs) THEN Head(rs).stats[field] ELSE 0)
         + SumOfStats(Tail(rs), field)

ButtonFile == [name |-> "a.html", nest |-> 0]

\* C5: totalPages is the length of the input list, totalElements and
\* interactiveElements are the sums over the results that carry stats, and
\* the list of the single file html>body>button gives totalElements >= 2 and
\* interactiveElements = 1; the written report holds the same numbers.
SummaryAddsUp(sum, rs) ==
    /\ sum.totalPages = Len(htmlFiles)
    /\ sum.totalElements = SumOfStats(rs, "totalElements")
    /\ sum.interactiveElements = SumOfStats(rs, "interactiveElements")

C5_SummaryIsSumOverResultsWithStats ==
    /\ pc = "forEach" => SummaryAddsUp(summary, results)
    /\ reportFile # <<>> =>
          /\ SummaryAddsUp(reportFile[1].summary, reportFile[1].results)
          /\ Len(reportFile[1].results) = Len(htmlFiles)
          /\ htmlFiles = <<ButtonFile>> =>
                /\ reportFile[1].summary.totalElements >= 2
                /\ reportFile[1].summary.interactiveElements = 1

\* C5 witness: a written report over an error record and a file with
\* interactive elements
C5_Witness ==
    /\ reportFile # <<>>
    /\ Len(htmlFiles) = 2
    /\ "error" \in DOMAIN reportFile[1].results[1]
    /\ "stats" \in DOMAIN reportFile[1].results[2]
    /\ reportFile[1].summary.interactiveElements > 1
    /\ reportFile[1].summary.totalElements > reportFile[1].summary.interactiveElements

\* a file whose handling fails: unreadable, or cut by the depth limit
FileFails(filePath) ==
    \/ ~ReadDocument(filePath).ok
    \/ DeepestLevel(ReadDocument(filePath).documentElement, 0) > 10

\* C6: the files are handled one after another in list order with one
\* result per file in that order; a file whose handling fails gets a
\* {file, error} record, and such a failure never ends the batch.
C6_OneResultPerFileInOrder ==
    tempFile.kind = "array" /\ pc # "start" =>
        /\ Len(results) = idx - 1
        /\ Len(results) <= Len(htmlFiles)
        /\ \A i \in 1..Len(results) :
              /\ results[i].file = htmlFiles[i]
              /\ IF FileFails(htmlFiles[i])
                 THEN DOMAIN results[i] = {"file", "error"}
                 ELSE DOMAIN results[i] = {"file", "domTree", "stats"}
        /\ pc \in {"written", "exited"} => Len(results) = Len(htmlFiles)

\* C6 witness: a failed file followed by an analysed one
C6_Witness ==
    /\ pc = "exited"
    /\ Len(results) = 2
    /\ DOMAIN results[1] = {"file", "error"}
    /\ "stats" \in DOMAIN results[2]

\* C7: when the list cannot be read, is not JSON, is not an array, or the
\* report cannot be written, the run ends with one JSON error line, exit
\* status 1 and no success line; the success line is printed only once
\* dom_analysis.json is written.
C7_FatalOnBadListOrWriteFailure ==
    /\ tempFile.kind # "array" /\ pc # "start" => pc = "exited"
    /\ pc = "exited" /\ (tempFile.kind # "array" \/ reportFile = <<>>) =>
          /\ exitCode = 1
          /\ Len(stderr) = 1
          /\ stderr[1].status = "error"
          /\ stdout = <<>>
    /\ stdout # <<>> =>
          /\ reportFile # <<>>
          /\ stdout[1].status = "success"
          /\ stderr = <<>>

\* C7 witness: the list was analysed but the report could not be written
C7_Witness ==
    /\ pc = "exited"
    /\ tempFile.kind = "array"
    /\ Len(results) > 0
    /\ reportFile = <<>>
    /\ exitCode = 1


(***************************************************************************)
(* Claims about the widget's chat.                                         *)
(***************************************************************************)
\* a step that leaves the chat as it was: no message appended, no
\* /api/chat request issued, the pending flag and the send button unchanged
ChatUntouched ==
    /\ state'.chatMessages = state.chatMessages
    /\ net'.chat = net.chat
    /\ state'.isWaitingForResponse = state.isWaitingForResponse
    /\ ui'.sendBtnDisabled = ui.sendBtnDisabled

IsBlank(text) == \A i \in 1..Len(text) : text[i] \in WhiteSpace

\* C8: a call of sendChatMessage with an empty or whitespace-only chat text,
\* from the send button, the Enter key or sendMessage, in any widget state,
\* appends no message, issues no /api/chat request and leaves
\* isWaitingForResponse and the send button's disabled state unchanged.
C8_BlankSendIsNoOp ==
    [][ /\ ((SendClick \/ EnterKey) /\ IsBlank(state.currentChatMessage))
              => ChatUntouched
        /\ \A message \in ChatTexts :
              (IsBlank(message) /\ SendMessageOf(message)) => ChatUntouched ]_vars

\* a blank send was the last send, in a chat that holds messages and waits
\* for a reply
C8_Witness ==
    /\ lastSend = "blank"
    /\ state.isWaitingForResponse
    /\ Len(state.chatMessages) > 0

\* C9: while isWaitingForResponse is true a send attempt (send button, Enter
\* key, sendMessage) appends no message and issues no request, and at most
\* one /api/chat request is in flight at any time.
C9_PendingSendRejected ==
    /\ [](net.chat <= 1)
    /\ [][ ((SendClick \/ EnterKey \/ SendMessage) /\ state.isWaitingForResponse)
              => /\ state'.chatMessages = state.chatMessages
                 /\ net'.chat = net.chat ]_vars

\* a non-blank send was rejected while a chat request is in flight
C9_Witness ==
    /\ lastSend = "pending"
    /\ net.chat = 1
    /\ state.isWaitingForResponse

\* a click on a voice button that issues POST /api/process-voice
VoiceAsked == VoiceClick /\ Len(net'.voice) = Len(net.voice) + 1
\* a click on a task card (it issues POST /api/get-instruction)
InstructionAsked == TaskCardClick /\ net'.instruction = net.instruction + 1
\* an input event that issues POST /api/search-instructions
SearchAsked == SearchInput /\ Len(net'.search) = Len(net.search) + 1

\* C10: between the turns of the event loop the send button is disabled
\* exactly when isWaitingForResponse is true, which is exactly when a chat
\* request is outstanding; and an outstanding chat request blocks neither a
\* voice query, nor an instruction fetch, nor a search.
C10_SendButtonDisabledIffChatOutstanding ==
    /\ ui.sendBtnDisabled = state.isWaitingForResponse
    /\ state.isWaitingForResponse <=> net.chat > 0
    /\ (net.chat > 0 /\ ui.listeners /\ Room(1) /\ Len(net.voice) < MaxInFlight)
          => ENABLED VoiceAsked
    /\ (net.chat > 0 /\ ui.taskCards.kind = "tasks" /\ Room(1)
            /\ net.instruction < MaxInFlight)
          => ENABLED InstructionAsked
    /\ (net.chat > 0 /\ ui.listeners /\ Len(net.search) < MaxInFlight)
          => ENABLED SearchAsked

\* a chat request, a voice query, an instruction fetch and a search are in
\* flight together, the send button disabled
C10_Witness ==
    /\ net.chat = 1
    /\ ui.sendBtnDisabled
    /\ state.isWaitingForResponse
    /\ Len(net.voice) = 1
    /\ net.instruction = 1
    /\ Len(net.search) = 1

(***************************************************************************)
(* Claims about the widget's handling of failures.                         *)
(***************************************************************************)
Apologies == {ChatApology, InstructionApology, VoiceApology}

LastMessage(messages) == messages[Len(messages)]

\* the step appends one message, an apology of the assistant
ApologyAppended ==
    /\ Len(state'.chatMessages) = Len(state.chatMessages) + 1
    /\ LastMessage(state'.chatMessages).role = "assistant"
    /\ LastMessage(state'.chatMessages).content \in Apologies

\* a step in which a request of the widget settles by failing
FailedSettle ==
    \/ \E tasks \in HelpReplies : HelpSettlesWith(TRUE, tasks)
    \/ \E data \in PopularReplies : \E i \in 1..Len(welcomeMessages) :
           PopularSettlesWith(TRUE, data, i)
    \/ \E i \in 1..Len(net.search) : \E found \in BOOLEAN :
           SearchSettlesWith(i, TRUE, found)
    \/ \E data \in ChatReplies : ChatSettlesWith(TRUE, data)
    \/ \E data \in InstructionReplies : InstructionSettlesWith(TRUE, data)
    \/ \E i \in 1..Len(net.voice) : \E data \in VoiceReplies :
           VoiceSettlesWith(i, TRUE, data)
    \/ ExportSettlesWith("failed")

\* C11: whichever network call fails (get-help, popular-instructions,
\* search-instructions, chat, get-instruction, process-voice, export), the
\* step that handles the failure appends a generic apology to the chat as an
\* assistant message.
C11_EveryFailureAppendsApology == [][FailedSettle => ApologyAppended]_vars

\* a step in which an operation of the widget ends by throwing, or by
\* rejecting the promise it returned
OperationThrows ==
    \/ (SendClick \/ EnterKey) /\ sendChatMessage(World(state, ui)).w.threw
    \/ \E message \in ChatTexts :
           /\ SendMessageOf(message)
           /\ sendChatMessage(
                  World([state EXCEPT !.currentChatMessage = message], ui)).w.threw
    \/ \E failed \in BOOLEAN : \E data \in ChatReplies :
           /\ ChatSettlesWith(failed, data)
           /\ chatSettled(World(state, ui), failed, data).threw
    \/ \E query \in SearchQueries :
           /\ SearchInputOf(query)
           /\ SearchBlank(query)
           /\ renderPopularInstructions(renderAvailableTasks(World(state, ui))).threw
    \/ \E failed \in BOOLEAN : \E data \in InstructionReplies :
           /\ InstructionSettlesWith(failed, data)
           /\ instructionSettled(World(state, ui), failed, data).threw
    \/ \E i \in 1..Len(net.voice) : \E failed \in BOOLEAN : \E data \in VoiceReplies :
           /\ VoiceSettlesWith(i, failed, data)
           /\ voiceSettled(World(state, ui), net.voice[i], failed, data).threw
    \/ \E failed \in BOOLEAN : \E data \in PopularReplies :
       \E i \in 1..Len(welcomeMessages) :
           /\ PopularSettlesWith(failed, data, i)
           /\ init(World(state, ui), failed, data, i).threw

\* C12: whatever the backend answers (a failure, a body that is no JSON, a
\* JSON body with fields missing) and whatever happened before, no step of
\* sendChatMessage, searchInstructions, showInstruction, processVoiceQuery,
\* exportInstruction or init ends by throwing or rejecting.
C12_NoErrorPropagates == [][~OperationThrows]_vars

(***************************************************************************)
(* Claims about the course of a chat send.                                 *)
(***************************************************************************)
\* a step of the send button, the Enter key or sendMessage
SendStep == SendClick \/ EnterKey \/ SendMessage

\* a send step that is accepted: the widget enters the pending state
AcceptedSend ==
    SendStep /\ ~state.isWaitingForResponse /\ state'.isWaitingForResponse

\* the POST /api/chat requests the step issues: those in flight after it
\* that were not in flight before it
ChatRequestsIssued ==
    net'.chat - (IF ChatSettles THEN net.chat - 1 ELSE net.chat)

\* C13: every step issues as many POST /api/chat requests as it accepts
\* sends: one in an accepted send, none in any other step, in particular
\* none in the step that handles a failed request; so in every execution the
\* requests issued are as many as the sends accepted.
C13_OneRequestPerAcceptedSend ==
    [][ChatRequestsIssued = (IF AcceptedSend THEN 1 ELSE 0)]_vars

\* an accepted send's request has failed, the apology is the last message,
\* and no request is in flight
C13_Witness ==
    /\ lastSend = "accepted"
    /\ net.chat = 0
    /\ Len(state.chatMessages) > 0
    /\ LastMessage(state.chatMessages).content = ChatApology

\* s is an initial part of t
IsPrefix(s, t) == Len(s) <= Len(t) /\ SubSeq(t, 1, Len(s)) = s

\* C14: across every step of the widget (a send, a reply, an error, a voice
\* query, showInstruction, loadInstruction, a tab switch, show and hide) the
\* chat message list before the step is an initial part of the list after
\* it: no message is removed and none has its role, content or instruction
\* payload changed.
C14_ChatMessagesAppendOnly ==
    [][IsPrefix(state.chatMessages, state'.chatMessages)]_vars

\* the chat holds the welcome, a user's message and an instruction, with the
\* chat tab switched to and the panel shown
C14_Witness ==
    /\ Len(state.chatMessages) >= 3
    /\ state.chatMessages[1].content = welcomeMessages[1]
    /\ \E i \in 2..Len(state.chatMessages) : state.chatMessages[i].role = "user"
    /\ ~LastMessage(state.chatMessages).instructionData.isNull
    /\ state.activeTab = "chat"
    /\ state.isVisible

\* in the state the step leads to, a send of a non-blank text is accepted
NextSendAccepted ==
    \A message \in ChatTexts :
        ~IsBlank(message) =>
            sendChatMessage(
                World([state' EXCEPT !.currentChatMessage = message], ui')).result
              = "accepted"

\* C15: the step in which the outstanding chat request settles (with a
\* well-formed reply, a malformed one or a failure, also when rendering the
\* reply throws) sets isWaitingForResponse to false and enables the send
\* button, and a non-blank send after it is accepted; a step in which the
\* request does not settle leaves the widget pending.
C15_SettleEndsPendingAndSendWorksAgain ==
    [][ /\ ChatSettles => /\ ~state'.isWaitingForResponse
                          /\ ~ui'.sendBtnDisabled
                          /\ NextSendAccepted
        /\ (state.isWaitingForResponse /\ ~ChatSettles)
              => state'.isWaitingForResponse ]_vars

Message(role, content, instructionData) ==
    [role |-> role, content |-> content, instructionData |-> instructionData]

\* the one assistant message a settled chat request is to add: the apology
\* when it failed, else the reply, with the instruction data exactly when its
\* type is instruction
ExpectedReply(failed, data) ==
    IF failed THEN Message("assistant", ChatApology, Null)
    ELSE Message("assistant", data.message,
                 IF data.type = "instruction" THEN data.instruction_data ELSE Null)

\* C16: an accepted chat send appends exactly one message, the user's trimmed
\* text, in the step that issues the request; the step in which the request
\* settles appends exactly one assistant message: the reply of the backend,
\* carrying the instruction payload if and only if the reply's type is
\* instruction, or the generic apology when the request failed.
C16_OneUserMessageThenOneAssistantMessage ==
    [][ /\ ((SendClick \/ EnterKey) /\ AcceptedSend)
              => state'.chatMessages =
                     Append(state.chatMessages,
                            Message("user", Trim(state.currentChatMessage), Null))
        /\ \A message \in ChatTexts :
              (SendMessageOf(message) /\ AcceptedSend)
                 => state'.chatMessages =
                        Append(state.chatMessages,
                               Message("user", Trim(message), Null))
        /\ \A failed \in BOOLEAN : \A data \in ChatReplies :
              ChatSettlesWith(failed, data)
                 => state'.chatMessages =
                        Append(state.chatMessages, ExpectedReply(failed, data)) ]_vars

(***************************************************************************)
(* Claims about the search, the tabs, the badge and the typing indicator.  *)
(***************************************************************************)
\* the task container showing the available tasks, or emptied
DefaultTaskCards ==
    [kind |-> IF state.availableTasks = <<>> THEN "empty" ELSE "tasks",
     query |-> <<>>]

TabActive(w, t) ==
    /\ w.state.activeTab = t
    /\ w.ui.activeTabBtns = {t}
    /\ w.ui.activeTabPanes = {t}

\* C18: a click on the tab t in {tasks, chat, help}, and any switchTab(t)
\* called in a reachable state, makes t the active tab, with exactly one tab
\* button and one tab pane active, those of t, and changes neither
\* isVisible, isMinimized nor chatMessages; and activeTab is one of tasks,
\* chat and help in every reachable state.
C18_SwitchTabActivatesExactlyOne ==
    /\ [](/\ state.activeTab \in Tabs
          /\ TabActive(World(state, ui), state.activeTab)
          /\ \A t \in Tabs :
                LET switched == switchTab(World(state, ui), t)
                IN /\ TabActive(switched, t)
                   /\ switched.state.isVisible = state.isVisible
                   /\ switched.state.isMinimized = state.isMinimized
                   /\ switched.state.chatMessages = state.chatMessages)
    /\ [][ \A t \in Tabs :
              TabClickOf(t) =>
                  /\ TabActive(World(state', ui'), t)
                  /\ state'.isVisible = state.isVisible
                  /\ state'.isMinimized = state.isMinimized
                  /\ state'.chatMessages = state.chatMessages ]_vars

\* the help tab was clicked after the chat tab had been switched to by an
\* instruction, in a visible, minimized panel
C18_Witness ==
    /\ state.activeTab = "help"
    /\ ui.activeTabBtns = {"help"}
    /\ state.isVisible
    /\ state.isMinimized
    /\ Len(state.chatMessages) > 1

\* the messages the step appends
Appended == SubSeq(state'.chatMessages, Len(state.chatMessages) + 1,
                   Len(state'.chatMessages))

\* C19: in every reachable state hasUnreadMessages implies that the panel is
\* not visible, and the badge is displayed exactly when hasUnreadMessages is
\* true; the flag becomes true only in a step that appends an assistant
\* message while the panel is hidden, becomes false only in a step that
\* shows the panel, is left alone by hiding the panel, and is not set by a
\* step that appends user messages only.
C19_UnreadFlagAndBadge ==
    /\ [](/\ state.hasUnreadMessages => ~state.isVisible
          /\ (ui.badgeDisplay = "flex") <=> state.hasUnreadMessages
          /\ ui.badgeDisplay \in {"flex", "none"})
    /\ [][ /\ (~state.hasUnreadMessages /\ state'.hasUnreadMessages)
                => /\ ~state.isVisible
                   /\ \E i \in 1..Len(Appended) : Appended[i].role = "assistant"
           /\ (state.hasUnreadMessages /\ ~state'.hasUnreadMessages)
                => (~state.isVisible /\ state'.isVisible)
           /\ (Hide \/ ClosePanel \/ (state.isVisible /\ ~state'.isVisible))
                => state'.hasUnreadMessages = state.hasUnreadMessages
           /\ (\A i \in 1..Len(Appended) : Appended[i].role = "user")
                => (state'.hasUnreadMessages => state.hasUnreadMessages) ]_vars

\* a reply of the backend arrived while the panel, minimized, was hidden:
\* the flag is set and the badge displayed
C19_Witness ==
    /\ state.hasUnreadMessages
    /\ ui.badgeDisplay = "flex"
    /\ ~state.isVisible
    /\ state.isMinimized
    /\ Len(state.chatMessages) >= 3
    /\ LastMessage(state.chatMessages).content = <<"reply">>

\* C20: in every reachable state the chat container holds a typing indicator
\* exactly when a chat request is outstanding (isWaitingForResponse is true),
\* and never more than one, whatever other operations (processVoiceQuery,
\* showInstruction, loadInstruction) append messages and render the
\* container meanwhile.
C20_TypingIndicatorExactlyWhilePending ==
    /\ ui.typingIndicators <= 1
    /\ (ui.typingIndicators = 1) <=> state.isWaitingForResponse

(***************************************************************************)
(* Claims about concurrent searches, initialisation and voice queries.     *)
(***************************************************************************)
\* the task container shows the outcome of a search
ShowsSearch == ui.taskCards.kind \in {"results", "notfound"}

\* C21: once every search request has settled, in whatever order, the task
\* container shows no search but that of the query entered last; and when
\* the search field was cleared after a search was issued, it shows no
\* search at all: the default lists stay.
C21_LastQueryWins ==
    net.search = <<>> =>
        IF IsBlank(searchValue)
        THEN ~ShowsSearch
        ELSE ShowsSearch => ui.taskCards.query = searchValue

\* the welcome messages the chat holds
Welcomes ==
    {i \in 1..Len(state.chatMessages) :
        /\ state.chatMessages[i].role = "assistant"
        /\ \E k \in 1..Len(welcomeMessages) :
               state.chatMessages[i].content = welcomeMessages[k]}

\* C22: init() is strictly ordered. The popular-instructions fetch goes out
\* only in the step in which the get-help fetch settles; the listeners are
\* attached and the welcome message appended only in the step in which the
\* popular-instructions fetch settles, and in that step always, whether
\* either fetch failed or not; while a fetch has not settled the widget has
\* no listeners and no welcome message, and no other step changes that.
C22_InitIsOrdered ==
    /\ [](/\ initPc \in {"help", "popular", "ready"}
          /\ initPc # "ready" => (~ui.listeners /\ Welcomes = {})
          /\ initPc = "ready" => (ui.listeners /\ Cardinality(Welcomes) = 1))
    /\ [][ /\ initPc' # initPc
                => \/ initPc = "help" /\ initPc' = "popular" /\ HelpSettles
                   \/ initPc = "popular" /\ initPc' = "ready" /\ PopularSettles
           /\ \A failed \in BOOLEAN : \A data \in PopularReplies :
              \A i \in 1..Len(welcomeMessages) :
                 PopularSettlesWith(failed, data, i)
                    => /\ ui'.listeners
                       /\ state'.chatMessages =
                              Append(state.chatMessages,
                                     Message("assistant", welcomeMessages[i], Null))
           /\ ~(HelpSettles \/ PopularSettles)
                => /\ initPc' = initPc
                   /\ ui'.listeners = ui.listeners ]_vars

\* both fetches failed, and yet the listeners are attached and the welcome
\* message is in the chat, after a message sent while init() was waiting
C22_Witness ==
    /\ initPc = "ready"
    /\ ui.listeners
    /\ ~IsDefined(state.popularInstructions)
    /\ ui.taskCards.kind = "none"
    /\ Len(state.chatMessages) >= 2
    /\ Welcomes = {Len(state.chatMessages)}

(***************************************************************************)
(* The snapshot tool: files cut by the depth limit.                        *)
(***************************************************************************)
\* the snapshot tree holds a depth-limit sentinel
HasSentinel(tree) ==
    "tagName" \in DOMAIN tree /\ \E p \in PathsOf(tree) : IsSentinel(NodeAt(tree, p))

\* the forEach iteration over one file
ProcessesFile(filePath) ==
    ProcessFile /\ htmlFiles[idx] = filePath

\* C23: a file nested deeper than the depth limit (its tree holds a
\* sentinel), like a file that cannot be read, gets a {file, error} record
\* without domTree or stats and leaves the totals of the summary as they
\* were; a file whose whole tree lies within depth 10 gets a record with
\* domTree and stats, and its tree holds no sentinel.
C23_CutOrUnreadableFileIsErrorRecord ==
    [][\A filePath \in FilePaths :
          ProcessesFile(filePath) =>
             LET record == results'[Len(results')]
             IN /\ Len(results') = Len(results) + 1
                /\ record.file = filePath
                /\ (HasSentinel(domTree') <=>
                      /\ ReadDocument(filePath).ok
                      /\ DeepestLevel(ReadDocument(filePath).documentElement, 0) > 10)
                /\ IF FileFails(filePath)
                   THEN /\ DOMAIN record = {"file", "error"}
                        /\ summary' = summary
                   ELSE /\ DOMAIN record = {"file", "domTree", "stats"}
                        /\ record.domTree = domTree'
                        /\ ~HasSentinel(record.domTree)
                        /\ summary'.totalElements =
                              summary.totalElements + record.stats.totalElements
                        /\ summary'.interactiveElements =
                              summary.interactiveElements + record.stats.interactiveElements
    ]_vars

\* C23 witness: after an analysed file with elements, a file cut by the depth
\* limit was recorded as an error and the totals are those of the first file
C23_Witness ==
    /\ pc = "forEach"
    /\ Len(results) = 2
    /\ "stats" \in DOMAIN results[1]
    /\ DOMAIN results[2] = {"file", "error"}
    /\ HasSentinel(domTree)
    /\ summary.totalElements = results[1].stats.totalElements
    /\ summary.totalElements > 0

(***************************************************************************)
(* Claims about voice queries.                                             *)
(***************************************************************************)
\* the messages a settled voice query is to add: the apology alone when the
\* request failed, else the user's text and then the assistant's reply
VoiceExpected(text, failed, data) ==
    IF failed
    THEN << Message("assistant", VoiceApology, Null) >>
    ELSE << Message("user", text, Null),
            Message("assistant", data.text,
                    IF data.source \in {"existing", "generated", "fallback"}
                    THEN InstructionData(data.steps, "i1") ELSE Null) >>

\* C24: no message is added when a voice query is started; when its request
\* settles successfully the user's text and then the assistant's reply are
\* appended, and nothing else; when it fails only the apology is appended.
\* isListening is false between the steps, so a voice query can be started
\* whatever is outstanding.
C24_VoiceAppendsUserTextOnlyOnSuccess ==
    /\ [](~state.isListening)
    /\ [](ui.listeners /\ Len(net.voice) < MaxInFlight /\ Room(1) =>
             ENABLED (VoiceClick /\ Len(net'.voice) = Len(net.voice) + 1))
    /\ [][ /\ VoiceClick => state'.chatMessages = state.chatMessages
           /\ \A i \in 1..Len(net.voice) : \A failed \in BOOLEAN : \A data \in VoiceReplies :
                 VoiceSettlesWith(i, failed, data) =>
                    state'.chatMessages =
                       state.chatMessages \o VoiceExpected(net.voice[i], failed, data)
         ]_vars

(***************************************************************************)
(* Claims about the chat text.                                             *)
(***************************************************************************)
\* a send step turned down because a chat request is outstanding
SendRejectedAsPending == SendStep /\ lastSend' = "pending"

\* C25: an accepted send leaves currentChatMessage empty; the step in which
\* the chat request settles leaves currentChatMessage as it is; a send (send
\* button, Enter key, sendMessage) rejected because a request is outstanding
\* leaves chatMessages, currentChatMessage, isWaitingForResponse, the active
\* tab and the visibility flags unchanged.
C25_ChatTextResetOnAcceptKeptOtherwise ==
    [][ /\ AcceptedSend => state'.currentChatMessage = <<>>
        /\ ChatSettles => state'.currentChatMessage = state.currentChatMessage
        /\ SendRejectedAsPending =>
              /\ state'.chatMessages = state.chatMessages
              /\ state'.currentChatMessage = state.currentChatMessage
              /\ state'.isWaitingForResponse = state.isWaitingForResponse
              /\ state'.activeTab = state.activeTab
              /\ state'.isVisible = state.isVisible
              /\ state'.isMinimized = state.isMinimized
      ]_vars

(***************************************************************************)
(* Claims about showing, hiding and minimizing the panel.                  *)
(***************************************************************************)
\* the panel's classes mirror the two flags
PanelClassesMatch ==
    /\ "visible" \in ui.panelClasses <=> state.isVisible
    /\ "minimized" \in ui.panelClasses <=> state.isMinimized

\* show() on the panel as it is: it becomes visible and keeps isMinimized
ShowKeepsMinimized ==
    Show /\ state'.isVisible /\ state'.isMinimized = state.isMinimized

\* C26: togglePanel leaves isMinimized false and flips isVisible, clearing
\* hasUnreadMessages when it shows the panel; toggleMinimize flips
\* isMinimized and nothing else; hidePanel (close button, hide()) sets
\* isVisible to false and nothing else, so a panel closed while minimized is
\* still minimized, and is shown minimized by show().
C26_ToggleRestoresHideKeepsMinimized ==
    /\ [](PanelClassesMatch)
    /\ [][ /\ TogglePanel =>
                state' = [state EXCEPT
                            !.isMinimized = FALSE,
                            !.isVisible = ~state.isVisible,
                            !.hasUnreadMessages = IF state.isVisible THEN @ ELSE FALSE]
           /\ ToggleMinimize =>
                state' = [state EXCEPT !.isMinimized = ~state.isMinimized]
           /\ (ClosePanel \/ Hide) =>
                state' = [state EXCEPT !.isVisible = FALSE]
           /\ Show =>
                state' = [state EXCEPT !.isVisible = TRUE, !.hasUnreadMessages = FALSE]
         ]_vars

\* C26 witness: the panel was closed while minimized, and show() brings it
\* back minimized
C26_Witness ==
    /\ ui.listeners
    /\ ~state.isVisible
    /\ state.isMinimized
    /\ "minimized" \in ui.panelClasses
    /\ ENABLED (ShowKeepsMinimized /\ state'.isMinimized)

(***************************************************************************)
(* Claims about initAIAssistant.                                           *)
(***************************************************************************)
\* a step that calls initAIAssistant: the page's own call, the script's, or
\* the DOMContentLoaded listener's
InitAIAssistantStep ==
    \/ InitAIAssistantCall
    \/ ScriptRuns /\ page.readyState # "loading"
    \/ DOMContentLoaded /\ page.script = "listening"

\* C27: once window.aiAssistant is set, every call of initAIAssistant, with
\* any config, returns that widget and constructs nothing, also after
\* destroy(), which removes the widget's nodes and leaves window.aiAssistant
\* set; so at most one widget is ever constructed through initAIAssistant.
C27_InitAIAssistantIsIdempotent ==
    /\ [](/\ page.constructed <= 1
          /\ page.aiAssistant \in {0, 1}
          /\ page.aiAssistant = page.constructed)
    /\ [][ /\ (InitAIAssistantStep /\ page.aiAssistant # 0) =>
                /\ page'.lastCall.returned = page.aiAssistant
                /\ ~page'.lastCall.threw
                /\ page'.aiAssistant = page.aiAssistant
                /\ page'.constructed = page.constructed
                /\ page'.attached = page.attached
                /\ UNCHANGED widgetVars
           /\ Destroy =>
                /\ page'.aiAssistant = page.aiAssistant
                /\ page'.constructed = page.constructed
                /\ ~page'.attached
         ]_vars

\* C27 witness: after destroy() a call with a config object returned the
\* widget constructed first, whose nodes are gone, and built nothing
C27_Witness ==
    /\ page.constructed = 1
    /\ page.destroyed
    /\ ~page.attached
    /\ page.lastCall.afterDestroy
    /\ page.lastCall.config = "object"
    /\ page.lastCall.warned
    /\ page.lastCall.returned = page.aiAssistant

(***************************************************************************)
(* The snapshot tool: what elementCount counts.                            *)
(***************************************************************************)
\* the number of elements below an element of the document (itself at the
\* given depth) that lie at depth last or above
RECURSIVE ElementsDownTo(_, _, _)
ElementsDownTo(element, depth, last) ==
    IF depth >= last THEN 0
    ELSE LET RECURSIVE Below(_)
             Below(i) ==
                 IF i > Len(element.children) THEN 0
                 ELSE 1 + ElementsDownTo(element.children[i], depth + 1, last)
                        + Below(i + 1)
         IN Below(1)

\* one for each child of a snapshot node, plus the elementCount of each
\* child that is not a sentinel
CountOverChildren(node) ==
    LET kids == node.children
        RECURSIVE Over(_)
        Over(i) == IF i > Len(kids) THEN 0
                   ELSE 1 + (IF IsSentinel(kids[i]) THEN 0 ELSE kids[i].elementCount)
                        + Over(i + 1)
    IN Over(1)

\* C28: every node of the tree that is not a sentinel has as elementCount the
\* sum over its children of 1 plus the child's elementCount, a sentinel child
\* counting as 1; the root's elementCount is the number of elements of the
\* document at depths 1 to 11, the elements at depth 12 or more left out.
C28_ElementCountStopsAtSentinels ==
    TreeBuilt =>
        /\ \A p \in PathsOf(domTree) :
              LET node == NodeAt(domTree, p)
              IN IF IsSentinel(node)
                 THEN "elementCount" \notin DOMAIN node
                 ELSE node.elementCount = CountOverChildren(node)
        /\ domTree.elementCount = ElementsDownTo(LastElement, 0, 11)
        /\ IF DeepestLevel(LastElement, 0) >= 12
           THEN domTree.elementCount < DescendantCount(LastElement)
           ELSE domTree.elementCount = DescendantCount(LastElement)

\* C28 witness: a document with elements at depth 12 was converted; its
\* root counts the elements down to the sentinels and fewer than there are
C28_Witness ==
    /\ TreeBuilt
    /\ DeepestLevel(LastElement, 0) >= 12
    /\ \E p \in PathsOf(domTree) : IsSentinel(NodeAt(domTree, p))
    /\ domTree.elementCount > 11
    /\ domTree.elementCount < DescendantCount(LastElement)

====
